---------------------------- MODULE Spec2Model ----------------------------
(***************************************************************************)
(* A model of the breez-sdk-ark synchronisation core:                      *)
(*   - the SQLite ledger store (persist/sqlite.rs): the payments and       *)
(*     settings tables behind one mutex-guarded connection, with the       *)
(*     transactional save_payments reconciliation;                         *)
(*   - the sync run (lib.rs sync_wallet_internal) and its callers;         *)
(*   - the background schedule (lib.rs periodic_sync / disconnect).        *)
(*                                                                         *)
(* Specifications:                                                         *)
(*   StoreSpec  storage calls issued concurrently by several threads       *)
(*   SyncSpec   on-demand sync runs against a changing protocol client     *)
(*   Spec       the background schedule: start, ticks, shutdown            *)
(*   FairSpec   Spec with the fairness of the runtime's scheduling         *)
(***************************************************************************)
EXTENDS Integers, Sequences, FiniteSets, TLC

VARIABLES
    payments,   \* rows of table `payments` as the connection sees them
    settings,   \* rows of table `settings`
    journal,    \* rollback journal: the rows saved when a transaction began
    lock,       \* owner of the Mutex<Connection>
    call,       \* per thread: the storage call in progress
    remote,     \* protocol client: the wallet states its answers may be taken from
    run,        \* per runner: the sync_wallet_internal run in progress
    loop,       \* per background task: the periodic_sync loop
    version,    \* watch channel: number of values sent by shutdown_sender
    listeners,  \* EventEmitter: the HashMap from listener id to listener
    issued,     \* the ids Uuid::new_v4() has produced so far
    mutex,      \* EventEmitter: the Mutex around the HashMap
    ecall,      \* per thread: the EventEmitter call in progress
    scan,       \* EsploraBlockchain: the find_outpoints call in progress
    norm,       \* the Payment::from(ArkTransaction) conversion in progress
    send,       \* per caller: the send_payment call in progress
    events      \* the kinds of SdkEvent handed to EventEmitter::emit so far

busVars == <<listeners, issued, mutex, ecall>>

sdkVars == <<payments, settings, journal, lock, call, remote, run, loop, version>>

appVars == <<norm, send, events>>

vars == <<sdkVars, busVars, scan, appVars>>

(***************************************************************************)
(* Bounds of the model.                                                    *)
(***************************************************************************)
MaxLen == 2
MaxWindow == 3
MaxHistory == 2
MaxSends == 2
MaxMissed == 2

(***************************************************************************)
(* Small helpers.                                                          *)
(***************************************************************************)
Range(s) == {s[i] : i \in DOMAIN s}

SeqsUpTo(S, n) == UNION {[1..k -> S] : k \in 0..n}

None == <<>>

Some(x) == <<x>>

(***************************************************************************)
(* models.rs: Payment, PaymentType, PaymentStatus.                         *)
(***************************************************************************)
Sent == "PaymentType::Sent"

Received == "PaymentType::Received"

PaymentTypes == {Sent, Received}

Pending == "PaymentStatus::Pending"

Completed == "PaymentStatus::Completed"

Failed == "PaymentStatus::Failed"

Expired == "PaymentStatus::Expired"

PaymentStatuses == {Pending, Completed, Failed, Expired}

\* impl fmt::Display for PaymentType
PaymentTypeToString(t) ==
    CASE t = Sent -> "Sent"
      [] t = Received -> "Received"

\* impl fmt::Display for PaymentStatus
PaymentStatusToString(s) ==
    CASE s = Pending -> "Pending"
      [] s = Completed -> "Completed"
      [] s = Failed -> "Failed"
      [] s = Expired -> "Expired"

Ids == {"A", "B", "C"}

\* Two sample contents per id, so that a replaced record differs from the old one.
Variants == {1, 2}

\* The v-th sample payment with a given id: the variants differ in every field.
MkPayment(id, v) ==
    [ id |-> id,
      payment_type |-> IF v % 2 = 1 THEN Received ELSE Sent,
      status |-> CASE v % 4 = 1 -> Pending
                   [] v % 4 = 2 -> Completed
                   [] v % 4 = 3 -> Failed
                   [] OTHER -> Expired,
      amount |-> 1000 * v,
      fees |-> 10 * (v % 2),
      timestamp |-> 1620000000 + v,
      description |-> IF v % 2 = 0 THEN Some("Test payment") ELSE None,
      destination |-> IF v % 3 = 0 THEN Some("test_destination") ELSE None ]

PaymentUniverse == {MkPayment(id, v) : id \in Ids, v \in Variants}

PaymentLists == SeqsUpTo(PaymentUniverse, MaxLen)

(***************************************************************************)
(* persist/sqlite.rs: the payments table.                                  *)
(***************************************************************************)
\* A mutant of ToRow: the fees column is written as 0.
ToRowDropsFees(p) ==
    [ id |-> p.id,
      payment_type |-> PaymentTypeToString(p.payment_type),
      status |-> PaymentStatusToString(p.status),
      amount |-> p.amount,
      fees |-> 0,
      timestamp |-> p.timestamp,
      description |-> p.description,
      destination |-> p.destination ]

\* The column values bound by params![...] in the INSERT OR REPLACE statement.
ToRow(p) ==
    [ id |-> p.id,
      payment_type |-> PaymentTypeToString(p.payment_type),
      status |-> PaymentStatusToString(p.status),
      amount |-> p.amount,
      fees |-> p.fees,
      timestamp |-> p.timestamp,
      description |-> p.description,
      destination |-> p.destination ]

\* The row-mapping closure of get_payment / list_payments.
RowIsValid(r) ==
    /\ r.payment_type \in {"Sent", "Received"}
    /\ r.status \in {"Pending", "Completed", "Failed", "Expired"}

FromRow(r) ==
    [ id |-> r.id,
      payment_type |-> CASE r.payment_type = "Sent" -> Sent
                         [] r.payment_type = "Received" -> Received,
      status |-> CASE r.status = "Pending" -> Pending
                   [] r.status = "Completed" -> Completed
                   [] r.status = "Failed" -> Failed
                   [] r.status = "Expired" -> Expired,
      amount |-> r.amount,
      fees |-> r.fees,
      timestamp |-> r.timestamp,
      description |-> r.description,
      destination |-> r.destination ]

\* A mutant of InsertOrReplace: a row with the same id is removed and the new
\* row is not inserted.
InsertOrRemove(rows, p) ==
    IF \E r \in rows : r.id = p.id
    THEN {r \in rows : r.id # p.id}
    ELSE rows \cup {ToRow(p)}

\* A mutant of InsertOrReplace: the table without its PRIMARY KEY on id.
InsertNoReplace(rows, p) == rows \cup {ToRow(p)}

\* INSERT OR REPLACE INTO payments: id is the PRIMARY KEY, so a row with the
\* same id is removed before the new row is inserted.
InsertOrReplace(rows, p) == {r \in rows : r.id # p.id} \cup {ToRow(p)}

\* DELETE FROM payments WHERE id NOT IN (?,...)
DeleteNotIn(rows, ids) == {r \in rows : r.id \in ids}

\* DELETE FROM payments
DeleteAll(rows) == {}

\* A mutant of Prune: nothing is deleted when the list is empty.
PruneKeepsOnEmpty(rows, payment_ids) ==
    IF payment_ids # <<>> THEN DeleteNotIn(rows, Range(payment_ids)) ELSE rows

\* The delete step of save_payments.
Prune(rows, payment_ids) ==
    IF payment_ids # <<>>
    THEN DeleteNotIn(rows, Range(payment_ids))
    ELSE DeleteAll(rows)

NoTx == <<"no transaction">>

InTx(rows) == <<"in transaction", rows>>

\* A mutant of Rollback: the writes of the failed transaction stay.
RollbackKeeps(rows, saved) == rows

\* Dropping the rusqlite Transaction without commit rolls back.
Rollback(rows, saved) == saved

\* The durable ledger: what the last commit left.
Committed == IF journal = NoTx THEN payments ELSE journal[2]

NoOwner == "nobody"

\* A mutant of CanLock: the connection is used without taking the mutex.
CanLockAlways == TRUE

\* self.connection.lock() returns once no other thread holds the guard.
CanLock == lock = NoOwner

\* SELECT ... FROM payments WHERE id = ?
GetPaymentResult(rows, id) ==
    IF \E r \in rows : r.id = id
    THEN Some(FromRow(CHOOSE r \in rows : r.id = id))
    ELSE None

RECURSIVE Orderings(_)
\* Every sequence that lists each row of the set once.
Orderings(rows) ==
    IF rows = {} THEN {<<>>}
    ELSE UNION {{<<r>> \o s : s \in Orderings(rows \ {r})} : r \in rows}

\* A mutant of IsSortedDesc: ORDER BY timestamp ASC.
IsSortedAsc(s) ==
    \A i \in 1..(Len(s) - 1) : s[i].timestamp <= s[i + 1].timestamp

\* ORDER BY timestamp DESC
IsSortedDesc(s) ==
    \A i \in 1..(Len(s) - 1) : s[i].timestamp >= s[i + 1].timestamp

\* LIMIT ? OFFSET ?
Window(s, offset, limit) ==
    [i \in 1..(IF Len(s) - offset < 0 THEN 0
               ELSE IF Len(s) - offset < limit THEN Len(s) - offset
               ELSE limit) |-> s[offset + i]]

\* SELECT ... FROM payments ORDER BY timestamp DESC LIMIT ? OFFSET ?: rows with
\* equal timestamps come in an order the statement does not fix.
ListPaymentsResults(rows, offset, limit) ==
    {[i \in DOMAIN w |-> FromRow(w[i])] :
        w \in {Window(s, offset, limit) : s \in {o \in Orderings(rows) : IsSortedDesc(o)}}}

(***************************************************************************)
(* persist/sqlite.rs: storage calls, one thread each.                      *)
(***************************************************************************)
Threads == {"t1", "t2"}

Idle ==
    [ op |-> "none", pc |-> "idle", list |-> <<>>, i |-> 0, payment_ids |-> <<>>,
      id |-> "", offset |-> 0, limit |-> 0,
      result |-> "none", failed_at |-> "none", pre |-> {}, obs |-> <<>> ]

\* save_payment: one autocommit INSERT OR REPLACE under the mutex.
SavePayment(t, p) ==
    /\ call[t].pc = "idle"
    /\ CanLock
    /\ lock' = t
    /\ \E ok \in BOOLEAN :
          /\ payments' = IF ok THEN InsertOrReplace(payments, p) ELSE payments
          /\ call' = [call EXCEPT ![t] =
                 [Idle EXCEPT !.op = "save_payment", !.pc = "unlock", !.list = <<p>>,
                              !.pre = Committed,
                              !.result = IF ok THEN "Ok" ELSE "Err",
                              !.failed_at = IF ok THEN "none" ELSE "execute"]]
    /\ UNCHANGED <<settings, journal, remote, run, loop, version, busVars, scan, appVars>>

\* save_payments: take the mutex and begin the transaction.
SavePaymentsBegin(t, list) ==
    /\ call[t].pc = "idle"
    /\ CanLock
    /\ lock' = t
    /\ \E ok \in BOOLEAN :
          /\ journal' = IF ok THEN InTx(payments) ELSE journal
          /\ call' = [call EXCEPT ![t] =
                 [Idle EXCEPT !.op = "save_payments", !.list = list, !.i = 1,
                              !.pre = Committed,
                              !.pc = IF ok THEN "upsert" ELSE "unlock",
                              !.result = IF ok THEN "none" ELSE "Err",
                              !.failed_at = IF ok THEN "none" ELSE "begin"]]
    /\ UNCHANGED <<payments, settings, remote, run, loop, version, busVars, scan, appVars>>

\* The `?` of a failed statement: the Transaction is dropped and rolls back,
\* and the call is left holding only the mutex guard.
TxFails(t, step) ==
    /\ payments' = Rollback(payments, journal[2])
    /\ journal' = NoTx
    /\ call' = [call EXCEPT ![t].pc = "unlock", ![t].result = "Err",
                            ![t].failed_at = step]

\* save_payments: one iteration of `for payment in payments`.
SavePaymentsUpsert(t) ==
    /\ call[t].op = "save_payments"
    /\ call[t].pc = "upsert"
    /\ call[t].i <= Len(call[t].list)
    /\ \E ok \in BOOLEAN :
          IF ok
          THEN /\ payments' = InsertOrReplace(payments, call[t].list[call[t].i])
               /\ call' = [call EXCEPT
                      ![t].payment_ids = Append(@, call[t].list[call[t].i].id),
                      ![t].i = @ + 1]
               /\ UNCHANGED journal
          ELSE TxFails(t, "upsert")
    /\ UNCHANGED <<settings, lock, remote, run, loop, version, busVars, scan, appVars>>

\* save_payments: the DELETE after the loop.
SavePaymentsPrune(t) ==
    /\ call[t].op = "save_payments"
    /\ call[t].pc = "upsert"
    /\ call[t].i > Len(call[t].list)
    /\ \E ok \in BOOLEAN :
          IF ok
          THEN /\ payments' = Prune(payments, call[t].payment_ids)
               /\ call' = [call EXCEPT ![t].pc = "commit"]
               /\ UNCHANGED journal
          ELSE TxFails(t, "delete")
    /\ UNCHANGED <<settings, lock, remote, run, loop, version, busVars, scan, appVars>>

\* save_payments: tx.commit()
SavePaymentsCommit(t) ==
    /\ call[t].op = "save_payments"
    /\ call[t].pc = "commit"
    /\ \E ok \in BOOLEAN :
          IF ok
          THEN /\ journal' = NoTx
               /\ call' = [call EXCEPT ![t].pc = "unlock", ![t].result = "Ok"]
               /\ UNCHANGED payments
          ELSE TxFails(t, "commit")
    /\ UNCHANGED <<settings, lock, remote, run, loop, version, busVars, scan, appVars>>

\* get_payment: the query under the mutex.
GetPayment(t, id) ==
    /\ call[t].pc = "idle"
    /\ CanLock
    /\ lock' = t
    /\ \E ok \in BOOLEAN :
          call' = [call EXCEPT ![t] =
              [Idle EXCEPT !.op = "get_payment", !.pc = "unlock", !.id = id,
                           !.pre = Committed,
                           !.result = IF ok THEN "Ok" ELSE "Err",
                           !.failed_at = IF ok THEN "none" ELSE "query",
                           !.obs = IF ok THEN GetPaymentResult(payments, id) ELSE <<>>]]
    /\ UNCHANGED <<payments, settings, journal, remote, run, loop, version, busVars, scan, appVars>>

\* list_payments: the query under the mutex.
ListPayments(t, offset, limit) ==
    /\ call[t].pc = "idle"
    /\ CanLock
    /\ lock' = t
    /\ \/ \E obs \in ListPaymentsResults(payments, offset, limit) :
             call' = [call EXCEPT ![t] =
                 [Idle EXCEPT !.op = "list_payments", !.pc = "unlock",
                              !.offset = offset, !.limit = limit,
                              !.pre = Committed, !.result = "Ok", !.obs = obs]]
       \/ call' = [call EXCEPT ![t] =
              [Idle EXCEPT !.op = "list_payments", !.pc = "unlock",
                           !.offset = offset, !.limit = limit,
                           !.pre = Committed, !.result = "Err",
                           !.failed_at = "query"]]
    /\ UNCHANGED <<payments, settings, journal, remote, run, loop, version, busVars, scan, appVars>>

\* The guard is dropped as the call returns.
Unlock(t) ==
    /\ call[t].pc = "unlock"
    /\ lock' = NoOwner
    /\ call' = [call EXCEPT ![t] = Idle]
    /\ UNCHANGED <<payments, settings, journal, remote, run, loop, version, busVars, scan, appVars>>

(***************************************************************************)
(* persist/sqlite.rs: the settings table and the balance snapshot.         *)
(***************************************************************************)
\* serde_json::to_string(&OffchainBalance)
BalanceToJson(b) == <<"pending_sats", b.pending_sats, "confirmed_sats", b.confirmed_sats>>

\* serde_json::from_str::<OffchainBalance>
BalanceFromJson(j) == [pending_sats |-> j[2], confirmed_sats |-> j[4]]

\* OffchainBalance::default()
DefaultBalance == [pending_sats |-> 0, confirmed_sats |-> 0]

\* A mutant of SetSetting: the settings table without its PRIMARY KEY on key.
SetSettingNoReplace(rows, key, value) ==
    rows \cup {[key |-> key, value |-> value]}

\* INSERT OR REPLACE INTO settings (key, value): key is the PRIMARY KEY.
SetSetting(rows, key, value) ==
    {r \in rows : r.key # key} \cup {[key |-> key, value |-> value]}

\* SELECT value FROM settings WHERE key = ?
GetSetting(rows, key) ==
    IF \E r \in rows : r.key = key
    THEN Some((CHOOSE r \in rows : r.key = key).value)
    ELSE None

\* save_offchain_balance, when set_setting succeeds.
SaveOffchainBalance(rows, balance) ==
    SetSetting(rows, "offchain_balance", BalanceToJson(balance))

\* get_offchain_balance
GetOffchainBalance(rows) ==
    IF GetSetting(rows, "offchain_balance") = None
    THEN DefaultBalance
    ELSE BalanceFromJson(GetSetting(rows, "offchain_balance")[1])

RECURSIVE UpsertAll(_, _)
\* The whole `for payment in payments` loop of save_payments.
UpsertAll(rows, list) ==
    IF list = <<>> THEN rows
    ELSE UpsertAll(InsertOrReplace(rows, Head(list)), Tail(list))

\* save_payments as one step, when every statement and the commit succeed: the
\* mutex and the transaction make the call atomic for every other thread.
SavePayments(rows, list) ==
    Prune(UpsertAll(rows, list), [i \in DOMAIN list |-> list[i].id])

(***************************************************************************)
(* models.rs: impl From<ArkTransaction> for Payment.                       *)
(***************************************************************************)
\* Stands for i64::MAX, the creation time ark_core gives an unconfirmed boarding.
UnconfirmedTimestamp == 2147483647

Abs(x) == IF x < 0 THEN 0 - x ELSE x

\* ArkTransaction::created_at
CreatedAt(tx) ==
    IF tx.kind = "Boarding"
    THEN (IF tx.confirmed_at = None THEN UnconfirmedTimestamp ELSE tx.confirmed_at[1])
    ELSE tx.created_at

\* Stand for i64::MIN and i64::MAX, the least and the greatest SignedAmount.
MinSat == 0 - 1073741824

MaxSat == 1073741823

\* i64::abs without overflow checks: the negation of i64::MIN wraps to i64::MIN.
WrappingAbs(x) == IF x = MinSat THEN MinSat ELSE Abs(x)

\* `as u64` of an i64: a negative value has 2^64 added.
AsU64(x) == IF x < 0 THEN (x - MinSat) - MinSat ELSE x

\* amount.to_sat().abs() overflows, which panics in a build with overflow
\* checks (the debug profile) and wraps in a build without (the release
\* profile).
AbsOverflows(tx) == tx.kind # "Boarding" /\ tx.amount = MinSat

OverflowChecks == BOOLEAN

\* A mutant of BoardingStatus: a boarding is Completed at once.
BoardingStatusCompleted(confirmed_at) == Completed

\* match confirmed_at { Some(_) => Completed, None => Pending }
BoardingStatus(confirmed_at) == IF confirmed_at # None THEN Completed ELSE Pending

\* A mutant of Direction: zero counts as positive.
DirectionZeroReceived(amount) == IF amount >= 0 THEN Received ELSE Sent

\* match amount.is_positive() { true => Received, false => Sent }
Direction(amount) == IF amount > 0 THEN Received ELSE Sent

\* match is_settled { true => Completed, false => Pending }
RedeemStatus(is_settled) == IF is_settled THEN Completed ELSE Pending

PaymentFrom(tx) ==
    CASE tx.kind = "Boarding" ->
           [ id |-> tx.txid,
             payment_type |-> Received,
             status |-> BoardingStatus(tx.confirmed_at),
             amount |-> tx.amount,
             fees |-> 0,
             timestamp |-> CreatedAt(tx),
             description |-> None,
             destination |-> None ]
      [] tx.kind = "Round" ->
           [ id |-> tx.txid,
             payment_type |-> Direction(tx.amount),
             status |-> Completed,
             amount |-> AsU64(WrappingAbs(tx.amount)),
             fees |-> 0,
             timestamp |-> tx.created_at,
             description |-> None,
             destination |-> None ]
      [] tx.kind = "Redeem" ->
           [ id |-> tx.txid,
             payment_type |-> Direction(tx.amount),
             status |-> RedeemStatus(tx.is_settled),
             amount |-> AsU64(WrappingAbs(tx.amount)),
             fees |-> 0,
             timestamp |-> tx.created_at,
             description |-> None,
             destination |-> None ]

\* No conversion is in progress.
NoNorm == [pc |-> "none", tx |-> <<>>, payment |-> None]

\* Payment::from(tx) is called.
Called(tx) == [pc |-> "called", tx |-> tx, payment |-> None]

\* Payment::from(tx) returns the payment, or panics on the overflow of abs().
From ==
    /\ norm.pc = "called"
    /\ \E checks \in OverflowChecks :
          IF checks /\ AbsOverflows(norm.tx)
          THEN norm' = [norm EXCEPT !.pc = "panicked"]
          ELSE norm' = [norm EXCEPT !.pc = "returned",
                                    !.payment = Some(PaymentFrom(norm.tx))]
    /\ UNCHANGED <<sdkVars, busVars, scan, send, events>>

\* sync_payments_to_storage: `for ark_transaction in ark_transactions`
Normalize(history) == [i \in DOMAIN history |-> PaymentFrom(history[i])]

(***************************************************************************)
(* The protocol client: the wallet states that offchain_balance() and      *)
(* transaction_history() may report.                                       *)
(***************************************************************************)
ArkTx(kind, txid, amount, confirmed_at, created_at, is_settled) ==
    [ kind |-> kind, txid |-> txid, amount |-> amount, confirmed_at |-> confirmed_at,
      created_at |-> created_at, is_settled |-> is_settled ]

TxSamples ==
    { ArkTx("Boarding", "A", 50000, None, 0, FALSE),
      ArkTx("Redeem", "B", 0 - 1000, None, 1620000002, TRUE) }

\* The entries Payment::from is checked on: unsigned amounts for a boarding,
\* signed amounts for a round and a redeem.
AmountSamples == {0, 1, 50000, MaxSat}

SignedAmountSamples == {MinSat, 0 - 1000, 0 - 1, 0, 1, 1000, MaxSat}

ArkTransactions ==
    {ArkTx("Boarding", txid, amount, confirmed_at, 0, FALSE) :
        txid \in {"A", "B"}, amount \in AmountSamples,
        confirmed_at \in {None, Some(1620000001)}}
    \cup
    {ArkTx("Round", txid, amount, None, created_at, FALSE) :
        txid \in {"A", "B"}, amount \in SignedAmountSamples,
        created_at \in {0, 1620000002}}
    \cup
    {ArkTx("Redeem", txid, amount, None, created_at, is_settled) :
        txid \in {"A", "B"}, amount \in SignedAmountSamples,
        created_at \in {0, 1620000002}, is_settled \in BOOLEAN}

BalanceSamples ==
    { [pending_sats |-> 5000, confirmed_sats |-> 10000],
      [pending_sats |-> 0, confirmed_sats |-> 4000] }

Remotes ==
    [balance : BalanceSamples, history : SeqsUpTo(TxSamples, MaxHistory)]

InitialRemote ==
    [ balance |-> [pending_sats |-> 5000, confirmed_sats |-> 10000],
      history |-> <<ArkTx("Boarding", "A", 50000, None, 0, FALSE)>> ]

(***************************************************************************)
(* chain/esplora.rs: find_outpoints.                                       *)
(***************************************************************************)
\* address.script_pubkey(), and the script of an output paying elsewhere.
ScriptPubkey == "script of the address"

OtherScript == "another script"

\* The transactions the explorer may list for the script: txid, block time
\* of the confirmation (if any) and outputs.
EsploraTx(txid, block_time, vout) ==
    [txid |-> txid, block_time |-> block_time, vout |-> vout]

TxOut(scriptpubkey, value) == [scriptpubkey |-> scriptpubkey, value |-> value]

ConfirmedTx ==
    EsploraTx("T1", Some(1620000000),
              <<TxOut(OtherScript, 700), TxOut(ScriptPubkey, 50000)>>)

UnconfirmedTx ==
    EsploraTx("T2", None,
              <<TxOut(ScriptPubkey, 1200), TxOut(ScriptPubkey, 50000)>>)

\* The lists of transactions scripthash_txs may answer.
TxLists == {<<>>, <<ConfirmedTx>>, <<UnconfirmedTx>>, <<ConfirmedTx, UnconfirmedTx>>}

\* The Result of a query of the explorer.
QueryFailed == <<"Err">>

QueryOk(x) == <<"Ok", x>>

\* The answers of the explorer to get_output_status: no status known, or a
\* status with its `spent` flag.

OutputStatuses == {None, Some(FALSE), Some(TRUE)}

\* The indices, in order, of the outputs of tx that pay to the script:
\* `.enumerate().filter(|(_, v)| v.scriptpubkey == script_pubkey)`
Matching(tx) ==
    SelectSeq([i \in 1..Len(tx.vout) |-> i],
              LAMBDA i : tx.vout[i].scriptpubkey = ScriptPubkey)

\* `.map(|(i, v)| ExplorerUtxo { .. is_spent: false })`; vout counts from 0.
OutputsOf(tx) ==
    [k \in 1..Len(Matching(tx)) |->
        [ outpoint |-> [txid |-> tx.txid, vout |-> Matching(tx)[k] - 1],
          amount |-> tx.vout[Matching(tx)[k]].value,
          confirmation_blocktime |-> tx.block_time,
          is_spent |-> FALSE ]]

\* `txs.into_iter().flat_map(..).collect()`
RECURSIVE Outputs(_)

Outputs(txs) ==
    IF txs = <<>> THEN <<>> ELSE OutputsOf(Head(txs)) \o Outputs(Tail(txs))

\* A mutant of WithStatus: an output without a known status counts as spent.
WithStatusUnknownSpent(output, status) ==
    IF status # Some(FALSE) THEN [output EXCEPT !.is_spent = TRUE] ELSE output

\* The `match status` of find_outpoints.
WithStatus(output, status) ==
    IF status = Some(TRUE) THEN [output EXCEPT !.is_spent = TRUE] ELSE output

\* A mutant of VecNew: the list of the call before is kept and added to.
VecKept(previous) == previous

\* `let mut utxos = Vec::new()`: nothing of an earlier call is at hand.
VecNew(previous) == <<>>

\* txs and answers: what the explorer has answered in this call; previous:
\* the list the call before has returned.
NoScan ==
    [ pc |-> "idle", txs |-> <<>>, outputs |-> <<>>, i |-> 0, utxos |-> <<>>,
      answers |-> <<>>, result |-> "none", failed_at |-> "none", previous |-> <<>> ]

\* `.unwrap()` on the Err of a query: the call panics.
Unwrap(failed_at) ==
    [NoScan EXCEPT !.pc = "done", !.result = "panic", !.failed_at = failed_at]

\* find_outpoints: self.client.scripthash_txs(&script_pubkey, None).unwrap()
\* and the candidate outputs.
ScripthashTxs(answer) ==
    /\ scan.pc \in {"idle", "done"}
    /\ scan' = IF answer = QueryFailed
               THEN Unwrap("scripthash_txs")
               ELSE [NoScan EXCEPT
                        !.pc = "status", !.txs = answer[2],
                        !.outputs = Outputs(answer[2]), !.i = 1,
                        !.utxos = VecNew(scan.utxos),
                        !.previous = IF scan.result = "Ok" THEN scan.utxos ELSE <<>>]
    /\ UNCHANGED <<sdkVars, busVars, appVars>>

\* find_outpoints: self.client.get_output_status(..).unwrap() for the next
\* candidate output, and the push of the result.
GetOutputStatus(answer) ==
    /\ scan.pc = "status"
    /\ scan.i <= Len(scan.outputs)
    /\ scan' = IF answer = QueryFailed
               THEN [Unwrap("get_output_status") EXCEPT
                        !.outputs = scan.outputs, !.i = scan.i,
                        !.answers = scan.answers]
               ELSE [scan EXCEPT
                        !.utxos = Append(@, WithStatus(scan.outputs[scan.i], answer[2])),
                        !.answers = Append(@, answer[2]),
                        !.i = @ + 1]
    /\ UNCHANGED <<sdkVars, busVars, appVars>>

\* find_outpoints: Ok(utxos)
FindOutpointsReturns ==
    /\ scan.pc = "status"
    /\ scan.i > Len(scan.outputs)
    /\ scan' = [scan EXCEPT !.pc = "done", !.result = "Ok"]
    /\ UNCHANGED <<sdkVars, busVars, appVars>>

(***************************************************************************)
(* events.rs: the EventEmitter.                                            *)
(***************************************************************************)
\* The values Uuid::new_v4() may produce.
Uuids == {"u1", "u2", "u3"}

\* What a registered EventListener does in on_event: it returns, it panics,
\* or it calls add_listener of the emitter that is calling it.
WellBehaved == {"returns"}

ListenerKinds == {"returns", "panics", "reenters"}

\* HashMap::new()
EmptyMap == <<>>

\* A mutant of NewV4: a value produced before may be produced again.
NewV4Repeats(earlier) == Uuids

\* Uuid::new_v4(): 122 random bits, taken to differ from every value drawn
\* before.
NewV4(earlier) == Uuids \ earlier

\* listeners.insert(id.clone(), listener)
Insert(map, id, listener) ==
    [u \in DOMAIN map \cup {id} |-> IF u = id THEN listener ELSE map[u]]

\* listeners.remove(id)
Remove(map, id) == [u \in DOMAIN map \ {id} |-> map[u]]

\* A mutant of IsSome: the answer is true whatever was removed.
IsSomeAlways(map, id) == TRUE

\* listeners.remove(id).is_some()
IsSome(map, id) == id \in DOMAIN map

\* A mutant of Values: one of the listeners is left out.
ValuesButOne(map) ==
    IF DOMAIN map = {} THEN {} ELSE DOMAIN map \ {CHOOSE u \in DOMAIN map : TRUE}

\* listeners.values(): the entries the loop of emit goes through, in the
\* order of the HashMap, which is any order.
Values(map) == DOMAIN map

\* What an emit does on a registry when nothing else runs: it returns after
\* the last listener, or it unwinds with the first panic, or it stays in a
\* listener that locks the mutex the emit holds (a second lock() on the same
\* thread never returns: it panics or it deadlocks).
EmitOutcomes(map, poisoned) ==
    IF poisoned THEN {"panicked"}
    ELSE IF \A u \in DOMAIN map : map[u] \in WellBehaved THEN {"returned"}
    ELSE {"panicked"} \cup
         (IF \E u \in DOMAIN map : map[u] = "reenters" THEN {"blocked"} ELSE {})

NoCall ==
    [ op |-> "none", pc |-> "idle", id |-> "", todo |-> {},
      invoked |-> [u \in Uuids |-> 0], before |-> EmptyMap, earlier |-> {},
      result |-> "none", value |-> "none" ]

\* A call that met the poisoned mutex: `self.listeners.lock().unwrap()` panics.
Poisoned(op) == [NoCall EXCEPT !.op = op, !.pc = "done", !.result = "panicked"]

\* add_listener(listener)
AddListener(t, kind) ==
    /\ ecall[t].pc = "idle"
    /\ mutex.owner = NoOwner
    /\ \E id \in NewV4(issued) :
          /\ issued' = issued \cup {id}
          /\ IF mutex.poisoned
             THEN /\ ecall' = [ecall EXCEPT ![t] = Poisoned("add_listener")]
                  /\ UNCHANGED listeners
             ELSE /\ listeners' = Insert(listeners, id, kind)
                  /\ ecall' = [ecall EXCEPT ![t] =
                         [NoCall EXCEPT !.op = "add_listener", !.pc = "done",
                                        !.id = id, !.before = listeners,
                                        !.earlier = issued,
                                        !.result = "returned", !.value = id]]
    /\ UNCHANGED <<payments, settings, journal, lock, call, remote, run, loop, version, scan, appVars,
                   mutex>>

\* remove_listener(id)
RemoveListener(t, id) ==
    /\ ecall[t].pc = "idle"
    /\ mutex.owner = NoOwner
    /\ IF mutex.poisoned
       THEN /\ ecall' = [ecall EXCEPT ![t] = Poisoned("remove_listener")]
            /\ UNCHANGED listeners
       ELSE /\ listeners' = Remove(listeners, id)
            /\ ecall' = [ecall EXCEPT ![t] =
                   [NoCall EXCEPT !.op = "remove_listener", !.pc = "done",
                                  !.id = id, !.before = listeners,
                                  !.result = "returned",
                                  !.value = IsSome(listeners, id)]]
    /\ UNCHANGED <<payments, settings, journal, lock, call, remote, run, loop, version, scan, appVars,
                   issued, mutex>>

\* emit(event): `let listeners = self.listeners.lock().unwrap()`
EmitBegin(t) ==
    /\ ecall[t].pc = "idle"
    /\ mutex.owner = NoOwner
    /\ IF mutex.poisoned
       THEN /\ ecall' = [ecall EXCEPT ![t] = Poisoned("emit")]
            /\ UNCHANGED mutex
       ELSE /\ mutex' = [mutex EXCEPT !.owner = t]
            /\ ecall' = [ecall EXCEPT ![t] =
                   [NoCall EXCEPT !.op = "emit", !.pc = "on_event",
                                  !.todo = Values(listeners),
                                  !.before = listeners]]
    /\ UNCHANGED <<payments, settings, journal, lock, call, remote, run, loop, version, scan, appVars,
                   listeners, issued>>

\* emit(event): `listener.on_event(event)` for the next listener. A panic
\* unwinds emit, and the guard dropped while panicking poisons the mutex.
OnEvent(t) ==
    /\ ecall[t].pc = "on_event"
    /\ \E id \in ecall[t].todo, unwinds \in BOOLEAN :
          LET called == [ecall[t] EXCEPT !.invoked[id] = @ + 1,
                                        !.todo = @ \ {id}, !.id = id]
              kind == listeners[id]
          IN  CASE kind = "returns" ->
                     /\ ecall' = [ecall EXCEPT ![t] = called]
                     /\ UNCHANGED mutex
                [] kind = "panics" \/ (kind = "reenters" /\ unwinds) ->
                     /\ ecall' = [ecall EXCEPT ![t] =
                            [called EXCEPT !.pc = "done", !.result = "panicked"]]
                     /\ mutex' = [owner |-> NoOwner, poisoned |-> TRUE]
                [] kind = "reenters" /\ ~unwinds ->
                     /\ ecall' = [ecall EXCEPT ![t] = [called EXCEPT !.pc = "blocked"]]
                     /\ UNCHANGED mutex
    /\ UNCHANGED <<payments, settings, journal, lock, call, remote, run, loop, version, scan, appVars,
                   listeners, issued>>

\* emit(event): the loop is over, the guard is dropped and emit returns.
EmitEnd(t) ==
    /\ ecall[t].pc = "on_event"
    /\ ecall[t].todo = {}
    /\ mutex' = [mutex EXCEPT !.owner = NoOwner]
    /\ ecall' = [ecall EXCEPT ![t].pc = "done", ![t].result = "returned"]
    /\ UNCHANGED <<payments, settings, journal, lock, call, remote, run, loop, version, scan, appVars,
                   listeners, issued>>

\* The thread goes on after its call.
BusReturn(t) ==
    /\ ecall[t].pc = "done"
    /\ ecall[t].result = "returned"
    /\ ecall' = [ecall EXCEPT ![t] = NoCall]
    /\ UNCHANGED <<payments, settings, journal, lock, call, remote, run, loop, version, scan, appVars,
                   listeners, issued, mutex>>

(***************************************************************************)
(* lib.rs: the sync run, sync_wallet_internal, by a runner: a thread       *)
(* calling sync_wallet, or a background periodic_sync task.                *)
(***************************************************************************)
\* The background tasks that calls of start() may spawn.
LoopIds == {1, 2}

\* connect() calls start() once: the task it spawns.
Connected == {1}

Callers == {101, 102}

\* No send_payment call is in progress.
NoSend ==
    [ pc |-> "idle", destination |-> "none", amount |-> 0, sent |-> FALSE,
      txid |-> "", payment |-> None, result |-> "none" ]

Runners == LoopIds \cup Callers

NoBalance == <<>>

\* Nothing was returned to the caller of sync_wallet yet.
NoResponse == <<>>

RunIdle ==
    [ pc |-> "idle", balance |-> NoBalance, wrote |-> NoBalance, history |-> <<>>,
      saved |-> <<>>,
      log |-> <<>>, result |-> "none", failed_at |-> "none", changed |-> FALSE,
      response |-> NoResponse ]

\* A mutant of NextPc: the reconciliation is skipped, Synced follows the balance.
NextPcSkipsReconcile(pc) ==
    CASE pc = "offchain_balance" -> "save_offchain_balance"
      [] pc = "save_offchain_balance" -> "emit"
      [] pc = "transaction_history" -> "save_payments"
      [] pc = "save_payments" -> "emit"
      [] pc = "emit" -> "return"

\* The order of the statements of sync_wallet_internal.
NextPc(pc) ==
    CASE pc = "offchain_balance" -> "save_offchain_balance"
      [] pc = "save_offchain_balance" -> "transaction_history"
      [] pc = "transaction_history" -> "save_payments"
      [] pc = "save_payments" -> "emit"
      [] pc = "emit" -> "return"

\* A mutant of RunFails: the error is noted and the run goes on.
RunGoesOn(r, step) ==
    run' = [run EXCEPT ![r].pc = NextPc(step), ![r].failed_at = step]

\* The `?` after a step: the run returns the error at once.
RunFails(r, step) ==
    run' = [run EXCEPT ![r].pc = "return", ![r].result = "Err", ![r].failed_at = step]

\* What get_balance and list_payments answer.
Visible(s, p) == <<GetOffchainBalance(s), p>>

\* self.ark_client.offchain_balance().await?
FetchBalance(r) ==
    /\ run[r].pc = "offchain_balance"
    /\ \/ \E w \in remote :
             run' = [run EXCEPT
                 ![r].balance = [pending_sats |-> w.balance.pending_sats,
                                 confirmed_sats |-> w.balance.confirmed_sats],
                 ![r].log = Append(@, "offchain_balance"),
                 ![r].pc = NextPc("offchain_balance")]
       \/ RunFails(r, "offchain_balance")
    /\ UNCHANGED <<payments, settings, journal, lock, call, remote, loop, version, busVars, scan, appVars>>

\* A mutant of SaveBalance: writing the balance empties the payments table.
SaveBalanceClearsPayments(r) ==
    /\ run[r].pc = "save_offchain_balance"
    /\ CanLock
    /\ settings' = SaveOffchainBalance(settings, run[r].balance)
    /\ payments' = {}
    /\ run' = [run EXCEPT
           ![r].balance = NoBalance,
           ![r].wrote = run[r].balance,
           ![r].log = Append(@, "save_offchain_balance"),
           ![r].changed = @ \/ Visible(settings', payments') # Visible(settings, payments),
           ![r].pc = NextPc("save_offchain_balance")]
    /\ UNCHANGED <<journal, lock, call, remote, loop, version, busVars, scan, appVars>>

\* self.storage.save_offchain_balance(&offchain_balance)?
SaveBalance(r) ==
    /\ run[r].pc = "save_offchain_balance"
    /\ CanLock
    /\ \E ok \in BOOLEAN :
          IF ok
          THEN /\ settings' = SaveOffchainBalance(settings, run[r].balance)
               /\ run' = [run EXCEPT
                      ![r].balance = NoBalance,
                      ![r].wrote = run[r].balance,
                      ![r].log = Append(@, "save_offchain_balance"),
                      ![r].changed = @ \/ Visible(settings', payments) # Visible(settings, payments),
                      ![r].pc = NextPc("save_offchain_balance")]
          ELSE /\ RunFails(r, "save_offchain_balance")
               /\ UNCHANGED settings
    /\ UNCHANGED <<payments, journal, lock, call, remote, loop, version, busVars, scan, appVars>>

\* sync_payments_to_storage: self.ark_client.transaction_history().await?
FetchHistory(r) ==
    /\ run[r].pc = "transaction_history"
    /\ \/ \E w \in remote :
             run' = [run EXCEPT
                 ![r].history = w.history,
                 ![r].log = Append(@, "transaction_history"),
                 ![r].pc = NextPc("transaction_history")]
       \/ RunFails(r, "transaction_history")
    /\ UNCHANGED <<payments, settings, journal, lock, call, remote, loop, version, busVars, scan, appVars>>

\* A mutant of GuardDropped: the guard of the connection outlives save_payments.
GuardKept(r) == ToString(r)

\* save_payments returns: its MutexGuard `conn` goes out of scope, on the Ok
\* path and on every `?` path.
GuardDropped(r) == NoOwner

\* sync_payments_to_storage: the conversion and self.storage.save_payments(&payments)?
ReconcilePayments(r) ==
    /\ run[r].pc = "save_payments"
    /\ CanLock
    /\ lock' = GuardDropped(r)
    /\ \E ok \in BOOLEAN :
          IF ok
          THEN /\ payments' = SavePayments(payments, Normalize(run[r].history))
               /\ run' = [run EXCEPT
                      ![r].saved = Normalize(run[r].history),
                      ![r].log = Append(@, "save_payments"),
                      ![r].changed = @ \/ Visible(settings, payments') # Visible(settings, payments),
                      ![r].pc = NextPc("save_payments")]
          ELSE /\ RunFails(r, "save_payments")
               /\ UNCHANGED payments
    /\ UNCHANGED <<settings, journal, call, remote, loop, version, busVars, scan, appVars>>

\* events.rs: enum SdkEvent.
SdkEvents == {"Synced", "PaymentSucceeded", "PaymentPending"}

\* A mutant of Emitted: the run emits PaymentSucceeded.
EmittedPaymentSucceeded == "PaymentSucceeded"

\* The event sync_wallet_internal hands to emit.
Emitted == "Synced"

\* self.event_emitter.emit(&SdkEvent::Synced {}), as one step of the run: the
\* emit returns, or a panic of a listener (or of `lock().unwrap()` on the
\* poisoned mutex) unwinds the run and the task it runs on, or the run stays
\* blocked in a listener with the mutex held.
EmitSynced(r) ==
    /\ run[r].pc = "emit"
    /\ mutex.owner = NoOwner
    /\ \E outcome \in EmitOutcomes(listeners, mutex.poisoned) :
          CASE outcome = "returned" ->
                 /\ run' = [run EXCEPT
                        ![r].log = Append(@, "emit"),
                        ![r].result = "Ok",
                        ![r].pc = NextPc("emit")]
                 /\ UNCHANGED <<loop, mutex>>
            [] outcome = "panicked" ->
                 /\ run' = [run EXCEPT ![r].pc = "panicked", ![r].result = "panicked"]
                 /\ loop' = IF r \in LoopIds
                            THEN [loop EXCEPT ![r].pc = "panicked"]
                            ELSE loop
                 /\ mutex' = [owner |-> NoOwner, poisoned |-> TRUE]
            [] outcome = "blocked" ->
                 /\ run' = [run EXCEPT ![r].pc = "blocked"]
                 /\ mutex' = [mutex EXCEPT !.owner = ToString(r)]
                 /\ UNCHANGED loop
    /\ UNCHANGED <<payments, settings, journal, lock, call, remote, version,
                   listeners, issued, ecall, scan, norm, send>>
    /\ events' = events \cup {Emitted}

\* A mutant of SyncWalletResult: the error of the run is logged and dropped.
SyncWalletSwallows(rn) ==
    [result |-> "Ok", log |-> rn.log, failed_at |-> rn.failed_at]

\* sync_wallet: `return Err(..)` after a failed board, else
\* `self.sync_wallet_internal().await?; Ok(SyncWalletResponse {})`, with what
\* the run had done when it returned.
SyncWalletResult(rn) ==
    [result |-> rn.result, log |-> rn.log, failed_at |-> rn.failed_at]

\* A mutant of AfterSync: an error ends the loop.
AfterSyncExitsOnErr(result) == IF result = "Err" THEN "exited" ELSE "select"

\* periodic_sync: `if let Err(e) = ... { error!(..) }`, then the next turn of
\* `loop`.
AfterSync(result) == "select"

\* sync_wallet_internal returns to its caller: sync_wallet hands the result on,
\* the periodic_sync loop logs an error and waits again.
RunReturns(r) ==
    /\ run[r].pc = "return"
    /\ r \in Callers => send[r].pc # "sync"
    /\ run' = [run EXCEPT ![r] =
           [RunIdle EXCEPT !.response =
               IF r \in Callers THEN SyncWalletResult(run[r]) ELSE NoResponse]]
    /\ loop' = IF r \in LoopIds
               THEN [loop EXCEPT ![r].pc = AfterSync(run[r].result),
                                 ![r].last = run[r].result]
               ELSE loop
    /\ UNCHANGED <<payments, settings, journal, lock, call, remote, version, busVars, scan, appVars>>

\* sync_wallet: board, then the sync run.
SyncWallet(c) ==
    /\ run[c].pc = "idle"
    /\ send[c].pc = "idle"
    /\ \E boarded \in BOOLEAN :
          IF boarded
          THEN run' = [run EXCEPT ![c] = [RunIdle EXCEPT !.pc = "offchain_balance"]]
          ELSE run' = [run EXCEPT ![c] =
                   [RunIdle EXCEPT !.pc = "return", !.result = "Err", !.failed_at = "board"]]
    /\ UNCHANGED <<payments, settings, journal, lock, call, remote, loop, version, busVars, scan, appVars>>

\* The destinations of a prepared payment: an Ark address that decodes, one
\* that does not, a BOLT11 invoice and a BOLT12 offer.
SendDestinations == {"ark address", "malformed address", "Bolt11", "Bolt12"}

SendAmounts == {1000, 2000}

\* The txids psbt.extract_tx()?.compute_txid() may give.
SentTxids == {"C"}

\* SystemTime::now() as seconds since the epoch.
NowSamples == {1620000003, 1620000004}

\* send_payment: `let payment = Payment { .. }`
SentPayment(txid, amount, timestamp, address) ==
    [ id |-> txid, payment_type |-> Sent, status |-> Pending, amount |-> amount,
      fees |-> 0, timestamp |-> timestamp, description |-> None,
      destination |-> Some(address) ]

\* A mutant of SendResult: the error of the sync after the send is dropped.
SendResultIgnoresSync(result) == "Ok"

\* send_payment: `self.sync_wallet_internal().await?; Ok(SendPaymentResponse { payment })`
SendResult(result) == result

\* send_payment: the match on the destination and ArkAddress::decode.
SendPayment(c, destination, amount) ==
    /\ run[c].pc = "idle"
    /\ send[c].pc = "idle"
    /\ send' = [send EXCEPT ![c] =
           IF destination = "ark address"
           THEN [NoSend EXCEPT !.pc = "send_vtxo", !.destination = destination,
                               !.amount = amount]
           ELSE [NoSend EXCEPT !.pc = "done", !.destination = destination,
                               !.amount = amount, !.result = "Err"]]
    /\ UNCHANGED <<sdkVars, busVars, scan, norm, events>>

\* send_payment: self.ark_client.send_vtxo(..).await, psbt.extract_tx()?, the
\* Payment record, and the call of sync_wallet_internal.
SendVtxo(c) ==
    /\ send[c].pc = "send_vtxo"
    /\ \/ /\ send' = [send EXCEPT ![c].pc = "done", ![c].result = "Err"]
          /\ UNCHANGED run
       \/ /\ send' = [send EXCEPT ![c].pc = "done", ![c].result = "Err", ![c].sent = TRUE]
          /\ UNCHANGED run
       \/ \E txid \in SentTxids, now \in NowSamples :
             /\ send' = [send EXCEPT
                    ![c].pc = "sync", ![c].sent = TRUE, ![c].txid = txid,
                    ![c].payment =
                        Some(SentPayment(txid, send[c].amount, now, send[c].destination))]
             /\ run' = [run EXCEPT ![c] = [RunIdle EXCEPT !.pc = "offchain_balance"]]
    /\ UNCHANGED <<payments, settings, journal, lock, call, remote, loop, version,
                   busVars, scan, norm, events>>

\* send_payment: sync_wallet_internal has returned; `?` hands its error on,
\* else Ok(SendPaymentResponse { payment }).
SendReturns(c) ==
    /\ send[c].pc = "sync"
    /\ run[c].pc = "return"
    /\ send' = [send EXCEPT
           ![c].pc = "done",
           ![c].result = SendResult(run[c].result),
           ![c].payment = IF SendResult(run[c].result) = "Ok" THEN @ ELSE None]
    /\ run' = [run EXCEPT ![c] = RunIdle]
    /\ UNCHANGED <<payments, settings, journal, lock, call, remote, loop, version,
                   busVars, scan, norm, events>>

\* The caller has the answer of send_payment.
SendDone(c) ==
    /\ send[c].pc = "done"
    /\ send' = [send EXCEPT ![c] = NoSend]
    /\ UNCHANGED <<sdkVars, busVars, scan, norm, events>>

\* A mutant of GetBalance: a read of the missing snapshot stores the default.
GetBalanceStoresDefault(t) ==
    /\ call[t].pc = "idle"
    /\ CanLock
    /\ lock' = t
    /\ settings' = SaveOffchainBalance(settings, GetOffchainBalance(settings))
    /\ call' = [call EXCEPT ![t] =
           [Idle EXCEPT !.op = "get_balance", !.pc = "unlock", !.pre = Committed,
                        !.result = "Ok", !.obs = Some(GetOffchainBalance(settings))]]
    /\ UNCHANGED <<payments, journal, remote, run, loop, version, busVars, scan, appVars>>

\* get_balance: self.storage.get_offchain_balance()?
GetBalance(t) ==
    /\ call[t].pc = "idle"
    /\ CanLock
    /\ lock' = t
    /\ \E ok \in BOOLEAN :
          call' = [call EXCEPT ![t] =
              [Idle EXCEPT !.op = "get_balance", !.pc = "unlock",
                           !.pre = Committed,
                           !.result = IF ok THEN "Ok" ELSE "Err",
                           !.failed_at = IF ok THEN "none" ELSE "query",
                           !.obs = IF ok THEN Some(GetOffchainBalance(settings)) ELSE <<>>]]
    /\ UNCHANGED <<payments, settings, journal, remote, run, loop, version, busVars, scan, appVars>>

RunStep(r) ==
    \/ FetchBalance(r)
    \/ SaveBalance(r)
    \/ FetchHistory(r)
    \/ ReconcilePayments(r)
    \/ EmitSynced(r)
    \/ RunReturns(r)

(***************************************************************************)
(* lib.rs: periodic_sync, start, disconnect.                               *)
(***************************************************************************)
\* The version of the BreezSdk's own shutdown_receiver: the receiver made by
\* watch::channel(()), on which nothing ever waits or borrows.
SdkReceiverVersion == 0

NoLoop ==
    [ pc |-> "none", seen |-> 0, due |-> 0, signalled |-> FALSE,
      dropped |-> 0, last |-> "none" ]

\* A mutant of Changed: only the first receiver is notified of a value sent.
ChangedFirstOnly(l) == l = 1 /\ version # loop[l].seen

\* shutdown_receiver.changed() is ready: a value was sent since the version
\* this receiver has seen.
Changed(l) == version # loop[l].seen

\* A mutant of ShutdownBranch: the loop waits again instead of returning.
ShutdownBranchContinues == "select"

\* The shutdown branch of the select!: `return`.
ShutdownBranch == "exited"

\* A mutant of AfterTick: MissedTickBehavior::Burst, every missed tick is
\* delivered.
AfterTickBurst(due) == due - 1

\* MissedTickBehavior::Skip: the interval delivers one tick, late, and drops
\* the other ticks that fell due meanwhile.
AfterTick(due) == 0

\* start() -> periodic_sync(): clone the receiver, create the interval (whose
\* first tick is due at once) and spawn the loop.
Start(l) ==
    /\ loop[l].pc = "none"
    /\ \A k \in LoopIds : k < l => loop[k].pc # "none"
    /\ loop' = [loop EXCEPT ![l] =
           [ pc |-> "select", seen |-> SdkReceiverVersion, due |-> 1,
             signalled |-> FALSE, dropped |-> 0, last |-> "none" ]]
    /\ UNCHANGED <<payments, settings, journal, lock, call, remote, run, version, busVars, scan, appVars>>

\* disconnect(): shutdown_sender.send(()), which succeeds as the BreezSdk
\* itself holds a receiver.
Disconnect ==
    /\ version < MaxSends
    /\ version' = version + 1
    /\ loop' = [l \in LoopIds |->
           IF loop[l].pc \in {"select", "sync"}
           THEN [loop[l] EXCEPT !.signalled = TRUE]
           ELSE loop[l]]
    /\ UNCHANGED <<payments, settings, journal, lock, call, remote, run, busVars, scan, appVars>>

\* A period of the loop's interval elapses.
TimePasses(l) ==
    /\ loop[l].pc \in {"select", "sync"}
    /\ loop[l].due < MaxMissed
    /\ loop' = [loop EXCEPT ![l].due = @ + 1]
    /\ UNCHANGED <<payments, settings, journal, lock, call, remote, run, version, busVars, scan, appVars>>

\* select! takes the shutdown branch.
ShutdownObserved(l) ==
    /\ loop[l].pc = "select"
    /\ Changed(l)
    /\ loop' = [loop EXCEPT ![l].pc = ShutdownBranch]
    /\ UNCHANGED <<payments, settings, journal, lock, call, remote, run, version, busVars, scan, appVars>>

\* select! takes the tick branch: sdk.sync_wallet_internal().await. When both
\* branches are ready select! picks one of them at random.
TickFires(l) ==
    /\ loop[l].pc = "select"
    /\ loop[l].due > 0
    /\ loop' = [loop EXCEPT ![l].pc = "sync",
                            ![l].due = AfterTick(@),
                            ![l].dropped = loop[l].due - 1 - AfterTick(loop[l].due)]
    /\ run' = [run EXCEPT ![l] = [RunIdle EXCEPT !.pc = "offchain_balance"]]
    /\ UNCHANGED <<payments, settings, journal, lock, call, remote, version, busVars, scan, appVars>>

(***************************************************************************)
(* StoreSpec: threads issue storage calls against one SqliteStorage.       *)
(***************************************************************************)
StoreInit ==
    /\ payments = {}
    /\ settings = {}
    /\ journal = NoTx
    /\ lock = NoOwner
    /\ call = [t \in Threads |-> Idle]
    /\ remote = {InitialRemote}
    /\ run = [r \in Runners |-> RunIdle]
    /\ loop = [l \in LoopIds |-> NoLoop]
    /\ version = 0
    /\ listeners = EmptyMap
    /\ issued = {}
    /\ mutex = [owner |-> NoOwner, poisoned |-> FALSE]
    /\ ecall = [t \in Threads |-> NoCall]
    /\ scan = NoScan
    /\ norm = NoNorm
    /\ send = [c \in Callers |-> NoSend]
    /\ events = {}

StoreNext ==
    \E t \in Threads :
        \/ \E p \in PaymentUniverse : SavePayment(t, p)
        \/ \E list \in PaymentLists : SavePaymentsBegin(t, list)
        \/ SavePaymentsUpsert(t)
        \/ SavePaymentsPrune(t)
        \/ SavePaymentsCommit(t)
        \/ \E id \in Ids : GetPayment(t, id)
        \/ \E offset \in 0..MaxWindow, limit \in 0..MaxWindow : ListPayments(t, offset, limit)
        \/ Unlock(t)

StoreSpec == StoreInit /\ [][StoreNext]_vars

(***************************************************************************)
(* SyncSpec: threads call sync_wallet; the wallet's state at the server    *)
(* may be any of the samples at each request.                              *)
(***************************************************************************)
SyncInit ==
    /\ payments = {}
    /\ settings = {}
    /\ journal = NoTx
    /\ lock = NoOwner
    /\ call = [t \in Threads |-> Idle]
    /\ remote = Remotes
    /\ run = [r \in Runners |-> RunIdle]
    /\ loop = [l \in LoopIds |-> NoLoop]
    /\ version = 0
    /\ listeners = EmptyMap
    /\ issued = {}
    /\ mutex = [owner |-> NoOwner, poisoned |-> FALSE]
    /\ ecall = [t \in Threads |-> NoCall]
    /\ scan = NoScan
    /\ norm = NoNorm
    /\ send = [c \in Callers |-> NoSend]
    /\ events = {}

SyncNext == \E c \in Callers : SyncWallet(c) \/ RunStep(c)

SyncSpec == SyncInit /\ [][SyncNext]_vars

(***************************************************************************)
(* Spec: the background schedule of one BreezSdk.                          *)
(***************************************************************************)
Init == StoreInit

Next ==
    \/ Disconnect
    \/ \E l \in Connected :
          \/ Start(l)
          \/ TimePasses(l)
          \/ ShutdownObserved(l)
          \/ TickFires(l)
          \/ RunStep(l)

Spec == Init /\ [][Next]_vars

\* The runtime polls a spawned task whose awaited call has returned (weak
\* fairness of the run's steps), and select! picks at random among the ready
\* branches, so a shutdown branch that is ready again and again is taken
\* (strong fairness).
FairSpec ==
    /\ Spec
    /\ \A l \in LoopIds : WF_vars(RunStep(l)) /\ SF_vars(ShutdownObserved(l))

\* Moreover time goes on, so the interval's next tick falls due, and the
\* runtime polls a loop whose tick branch is ready.
LiveSpec ==
    /\ FairSpec
    /\ \A l \in LoopIds : WF_vars(TimePasses(l)) /\ WF_vars(TickFires(l))


(***************************************************************************)
(* ScanSpec: calls of find_outpoints, one after the other, against an      *)
(* explorer that may fail at any query.                                    *)
(***************************************************************************)
ScanNext ==
    \/ \E answer \in {QueryOk(txs) : txs \in TxLists} \cup {QueryFailed} :
          ScripthashTxs(answer)
    \/ \E answer \in {QueryOk(status) : status \in OutputStatuses} \cup {QueryFailed} :
          GetOutputStatus(answer)
    \/ FindOutpointsReturns

ScanSpec == Init /\ [][ScanNext]_vars

(***************************************************************************)
(* BusSpec: threads use one EventEmitter whose listeners are well-behaved. *)
(* FaultySpec: the listeners may also panic or call the emitter again.     *)
(***************************************************************************)
BusNext ==
    \E t \in Threads :
        \/ \E kind \in WellBehaved : AddListener(t, kind)
        \/ \E id \in Uuids : RemoveListener(t, id)
        \/ EmitBegin(t)
        \/ OnEvent(t)
        \/ EmitEnd(t)
        \/ BusReturn(t)

BusSpec == Init /\ [][BusNext]_vars

FaultyNext ==
    \E t \in Threads :
        \/ \E kind \in ListenerKinds : AddListener(t, kind)
        \/ \E id \in Uuids : RemoveListener(t, id)
        \/ EmitBegin(t)
        \/ OnEvent(t)
        \/ EmitEnd(t)
        \/ BusReturn(t)

FaultySpec == Init /\ [][FaultyNext]_vars

(***************************************************************************)
(* NormSpec: Payment::from is called on one entry of ArkTransactions.      *)
(***************************************************************************)
NormInit ==
    /\ payments = {}
    /\ settings = {}
    /\ journal = NoTx
    /\ lock = NoOwner
    /\ call = [t \in Threads |-> Idle]
    /\ remote = {InitialRemote}
    /\ run = [r \in Runners |-> RunIdle]
    /\ loop = [l \in LoopIds |-> NoLoop]
    /\ version = 0
    /\ listeners = EmptyMap
    /\ issued = {}
    /\ mutex = [owner |-> NoOwner, poisoned |-> FALSE]
    /\ ecall = [t \in Threads |-> NoCall]
    /\ scan = NoScan
    /\ norm \in {Called(tx) : tx \in ArkTransactions}
    /\ send = [c \in Callers |-> NoSend]
    /\ events = {}

NormNext == From

NormSpec == NormInit /\ [][NormNext]_vars

(***************************************************************************)
(* AppSpec: one application thread calls sync_wallet and send_payment,     *)
(* another one get_balance and list_payments, while the background         *)
(* schedule runs; the wallet's state at the server is, at each request,    *)
(* the one before or the one after a payment of 1000 sats was sent.        *)
(***************************************************************************)
LaterRemote ==
    [ balance |-> [pending_sats |-> 0, confirmed_sats |-> 4000],
      history |-> << ArkTx("Boarding", "A", 50000, None, 0, FALSE),
                     ArkTx("Redeem", "B", 0 - 1000, None, 1620000002, TRUE) >> ]

AppInit ==
    /\ payments = {}
    /\ settings = {}
    /\ journal = NoTx
    /\ lock = NoOwner
    /\ call = [t \in Threads |-> Idle]
    /\ remote = {InitialRemote, LaterRemote}
    /\ run = [r \in Runners |-> RunIdle]
    /\ loop = [l \in LoopIds |-> NoLoop]
    /\ version = 0
    /\ listeners = EmptyMap
    /\ issued = {}
    /\ mutex = [owner |-> NoOwner, poisoned |-> FALSE]
    /\ ecall = [t \in Threads |-> NoCall]
    /\ scan = NoScan
    /\ norm = NoNorm
    /\ send = [c \in Callers |-> NoSend]
    /\ events = {}

AppCaller == 101

AppReader == "t1"

AppNext ==
    \/ SyncWallet(AppCaller)
    \/ \E destination \in SendDestinations, amount \in SendAmounts :
          SendPayment(AppCaller, destination, amount)
    \/ SendVtxo(AppCaller)
    \/ SendReturns(AppCaller)
    \/ SendDone(AppCaller)
    \/ RunStep(AppCaller)
    \/ GetBalance(AppReader)
    \/ ListPayments(AppReader, 0, MaxWindow)
    \/ Unlock(AppReader)
    \/ \E l \in Connected :
          \/ Start(l)
          \/ TickFires(l)
          \/ RunStep(l)

AppSpec == AppInit /\ [][AppNext]_vars

(***************************************************************************)
(* RestartSpec: start() is called on a BreezSdk again after connect(), so  *)
(* every loop of LoopIds may be spawned; each loop runs its first tick.    *)
(***************************************************************************)
RestartNext ==
    \/ Disconnect
    \/ \E l \in LoopIds :
          \/ Start(l)
          \/ ShutdownObserved(l)
          \/ TickFires(l)
          \/ RunStep(l)

RestartSpec == Init /\ [][RestartNext]_vars

\* RestartSpec with the scheduling of FairSpec: the runtime polls a task whose
\* awaited call has returned, and select! takes a shutdown branch that is
\* ready again and again.
RestartFairSpec ==
    /\ RestartSpec
    /\ \A l \in LoopIds : WF_vars(RunStep(l)) /\ SF_vars(ShutdownObserved(l))

(***************************************************************************)
(* NotifySpec: the first sync of the background schedule of a BreezSdk on  *)
(* which a thread registers and removes listeners of any kind.             *)
(***************************************************************************)
NotifyNext ==
    \/ \E kind \in ListenerKinds : AddListener("t1", kind)
    \/ \E id \in Uuids : RemoveListener("t1", id)
    \/ BusReturn("t1")
    \/ \E l \in Connected :
          \/ Start(l)
          \/ TickFires(l)
          \/ RunStep(l)

NotifySpec == Init /\ [][NotifyNext]_vars

(***************************************************************************)
(* Claims about the ledger store, checked under StoreSpec.                 *)
(***************************************************************************)
IdsOf(list) == {list[i].id : i \in DOMAIN list}

LastWithId(list, id) ==
    list[CHOOSE i \in DOMAIN list :
            /\ list[i].id = id
            /\ \A j \in DOMAIN list : list[j].id = id => j <= i]

StoredPayments == {FromRow(r) : r \in payments}

SaveReturned(t, op, result) ==
    /\ call[t].op = op
    /\ call[t].pc = "unlock"
    /\ call[t].result = result

\* C1: when save_payments(list) returns Ok, the stored ids are exactly the ids
\* of list, each stored record reads back as the last list entry with its id,
\* and every record of another id is gone.
C1_ReconcileExact ==
    \A t \in Threads :
        SaveReturned(t, "save_payments", "Ok") =>
            /\ {r.id : r \in payments} = IdsOf(call[t].list)
            /\ StoredPayments = {LastWithId(call[t].list, id) : id \in IdsOf(call[t].list)}
            /\ \A r \in call[t].pre : r.id \notin IdsOf(call[t].list) => r \notin payments

\* C1 witness: stored {A, B, C} was reconciled with a list of ids {A, C}.
C1_Witness ==
    \E t \in Threads :
        /\ SaveReturned(t, "save_payments", "Ok")
        /\ {r.id : r \in call[t].pre} = {"A", "B", "C"}
        /\ IdsOf(call[t].list) = {"A", "C"}
        /\ {r.id : r \in payments} = {"A", "C"}

\* C2: when save_payments returns an error, at whatever step it failed, the
\* stored payment set is the one before the call.
C2_FailureRollsBack ==
    \A t \in Threads :
        SaveReturned(t, "save_payments", "Err") =>
            /\ payments = call[t].pre
            /\ journal = NoTx

\* C2 witness: the commit failed after upserts and a delete that had changed rows.
C2_Witness ==
    \E t \in Threads :
        /\ SaveReturned(t, "save_payments", "Err")
        /\ call[t].failed_at = "commit"
        /\ call[t].list # <<>>
        /\ \E r \in call[t].pre : r.id \notin IdsOf(call[t].list)
        /\ \E i \in DOMAIN call[t].list : ToRow(call[t].list[i]) \notin call[t].pre

\* C3: what get_payment or list_payments returns is an answer to the query on
\* a committed ledger (the one before or the one after a concurrent
\* save_payments), never on rows of a transaction in progress.
C3_ReadersSeeCommitted ==
    \A t \in Threads :
        /\ SaveReturned(t, "list_payments", "Ok") =>
               /\ call[t].obs \in ListPaymentsResults(call[t].pre, call[t].offset, call[t].limit)
               /\ journal = NoTx
        /\ SaveReturned(t, "get_payment", "Ok") =>
               /\ call[t].obs = GetPaymentResult(call[t].pre, call[t].id)
               /\ journal = NoTx

\* C3 witness: a reader got a non-empty answer after another thread's
\* save_payments had committed.
C3_Witness ==
    \E t \in Threads :
        /\ SaveReturned(t, "list_payments", "Ok")
        /\ Len(call[t].obs) = 2
        /\ \E u \in Threads \ {t} : call[u].pc = "idle"

\* C4: the ledger never holds two records with the same id.
C4_OneRecordPerId ==
    \A r1, r2 \in payments : r1.id = r2.id => r1 = r2

\* C4 witness: a list repeating an id was saved over a ledger holding that id.
C4_Witness ==
    \E t \in Threads :
        /\ call[t].op = "save_payments"
        /\ call[t].i = 3
        /\ call[t].list[1].id = call[t].list[2].id
        /\ call[t].list[1] # call[t].list[2]
        /\ \E r \in call[t].pre : r.id = call[t].list[1].id

(***************************************************************************)
(* Claims about the sync run, checked under SyncSpec.                      *)
(***************************************************************************)
RunReturned(r, result) == run[r].pc = "return" /\ run[r].result = result

\* The steps a run has completed when the named step fails.
StepsBefore(step) ==
    CASE step = "board" -> <<>>
      [] step = "offchain_balance" -> <<>>
      [] step = "save_offchain_balance" -> <<"offchain_balance">>
      [] step = "transaction_history" -> <<"offchain_balance", "save_offchain_balance">>
      [] step = "save_payments" ->
           <<"offchain_balance", "save_offchain_balance", "transaction_history">>

\* C5: a sync run that fails has changed nothing of what get_balance and
\* list_payments answer.
C5_FailedRunChangesNothing ==
    \A r \in Runners : RunReturned(r, "Err") => ~run[r].changed

\* C6: when a step of a sync run fails the run returns the error at once: the
\* steps before it are all it has executed, and no Synced was emitted.
C6_FailureStopsRun ==
    \A r \in Runners :
        run[r].failed_at # "none" =>
            /\ RunReturned(r, "Err")
            /\ run[r].log = StepsBefore(run[r].failed_at)
            /\ \A i \in DOMAIN run[r].log : run[r].log[i] # "emit"

\* C6 witness: the reconciliation failed after the balance was persisted and
\* the history fetched.
C6_Witness ==
    \E r \in Runners :
        /\ RunReturned(r, "Err")
        /\ run[r].failed_at = "save_payments"
        /\ Len(run[r].log) = 3
        /\ run[r].changed

\* C7: a run that succeeds emitted Synced exactly once, as its last step, and
\* every Synced comes after a successful save_offchain_balance followed by a
\* successful save_payments of the whole normalized history of that run.
C7_SyncedAfterPersist ==
    \A r \in Runners :
        /\ RunReturned(r, "Ok") =>
               run[r].log = <<"offchain_balance", "save_offchain_balance",
                              "transaction_history", "save_payments", "emit">>
        /\ \A i \in DOMAIN run[r].log :
               run[r].log[i] = "emit" =>
                   /\ \E j, k \in 1..(i - 1) :
                         /\ j < k
                         /\ run[r].log[j] = "save_offchain_balance"
                         /\ run[r].log[k] = "save_payments"
                   /\ run[r].saved = Normalize(run[r].history)
                   /\ Len(run[r].saved) = Len(run[r].history)

\* C7 witness: a run over a non-empty history returned Ok.
C7_Witness ==
    \E r \in Runners :
        /\ RunReturned(r, "Ok")
        /\ Len(run[r].history) = 2
        /\ run[r].changed

(***************************************************************************)
(* Claims about the background schedule, checked under Spec and FairSpec.  *)
(***************************************************************************)
Running(l) == loop[l].pc \in {"select", "sync"}

\* C8: once disconnect() has signalled a running loop, that loop begins no
\* sync run any more.
C8_NoSyncAfterShutdown ==
    [][\A l \in LoopIds :
          (loop[l].signalled /\ loop[l].pc = "select") => loop'[l].pc # "sync"]_vars

\* C9: a loop signalled by disconnect() eventually exits, and a loop that has
\* exited stays exited and runs no sync again.
C9_ShutdownTerminates ==
    /\ \A l \in LoopIds : (Running(l) /\ loop[l].signalled) ~> (loop[l].pc = "exited")
    /\ [][\A l \in LoopIds :
             loop[l].pc = "exited" => (loop'[l].pc = "exited" /\ run'[l].pc = "idle")]_vars

\* C9 witness: a loop has exited after a disconnect() sent while it was in a
\* sync run.
C9_Witness ==
    \E l \in LoopIds :
        /\ loop[l].pc = "exited"
        /\ loop[l].signalled
        /\ payments # {}

\* C10: a disconnect() called while no loop runs has no effect on a schedule
\* started later: a loop exits only if disconnect() was called while it ran.
C10_StaleShutdownIgnored ==
    \A l \in LoopIds : loop[l].pc = "exited" => loop[l].signalled

\* C11: within one schedule a sync begins only when no sync of that schedule
\* is in progress, and the tick that begins it leaves no overdue tick behind:
\* however many ticks fell due during a slow sync, one sync follows it, and
\* the next one needs another period to elapse.
C11_NoOverlapNoPileUp ==
    /\ [](\A l \in LoopIds : (loop[l].pc = "sync") <=> (run[l].pc # "idle"))
    /\ [][\A l \in LoopIds :
             (loop[l].pc # "sync" /\ loop'[l].pc = "sync") =>
                 /\ run[l].pc = "idle"
                 /\ loop[l].pc = "select"
                 /\ loop'[l].due = 0]_vars

\* C11 witness: a sync has begun on a tick that came with a second overdue
\* tick, which was dropped.
C11_Witness ==
    \E l \in LoopIds :
        /\ loop[l].pc = "sync"
        /\ loop[l].dropped >= 1
        /\ loop[l].due = 0
        /\ payments # {}

\* C11 as stated: every tick that falls due while a sync is running is
\* skipped, so that no tick is pending when the sync returns.
C11_MissedTicksSkipped ==
    [][\A l \in LoopIds :
          (loop[l].pc = "sync" /\ loop'[l].pc = "select") => loop'[l].due = 0]_vars

\* C12: when a scheduled sync returns an error the loop waits again, and
\* unless a shutdown signal is pending a later tick begins a sync again.
C12_FailedTickContinues ==
    /\ [][\A l \in LoopIds :
             (RunReturned(l, "Err") /\ run'[l].pc = "idle") =>
                 loop'[l].pc = "select"]_vars
    /\ \A l \in LoopIds :
           (loop[l].pc = "select" /\ loop[l].last = "Err")
               ~> (loop[l].pc = "sync" \/ Changed(l))

\* C12 witness: a sync is in progress in a loop whose previous sync failed.
C12_Witness ==
    \E l \in LoopIds :
        /\ loop[l].pc = "sync"
        /\ loop[l].last = "Err"
        /\ ~Changed(l)

(***************************************************************************)
(* Claims about sync_wallet, checked under SyncSpec.                       *)
(***************************************************************************)
AllSteps ==
    <<"offchain_balance", "save_offchain_balance", "transaction_history",
      "save_payments", "emit">>

\* C13: sync_wallet answers Ok only when its run completed every step, the
\* Synced emission included, and answers Err whenever boarding or a step of
\* the run failed.
C13_ManualSyncPropagates ==
    \A c \in Callers :
        run[c].response # NoResponse =>
            /\ run[c].response.result \in {"Ok", "Err"}
            /\ run[c].response.result = "Ok" =>
                   /\ run[c].response.log = AllSteps
                   /\ run[c].response.failed_at = "none"
            /\ run[c].response.failed_at # "none" => run[c].response.result = "Err"
            /\ run[c].response.log # AllSteps => run[c].response.result = "Err"

\* C13 witness: one sync_wallet answered Err for a failed reconciliation and
\* another one Err for a failed board.
C13_Witness ==
    \E c, d \in Callers :
        /\ run[c].response # NoResponse
        /\ run[d].response # NoResponse
        /\ run[c].response.result = "Err"
        /\ run[c].response.failed_at = "save_payments"
        /\ run[d].response.result = "Err"
        /\ run[d].response.failed_at = "board"

(***************************************************************************)
(* Claims about the EventEmitter, checked under BusSpec (well-behaved      *)
(* listeners), FaultySpec and NotifySpec (listeners of any kind).          *)
(***************************************************************************)
EmitOver(t) == ecall[t].op = "emit" /\ ecall[t].pc = "done"

\* C14: an emit on a registry of two listeners, one of which panics in
\* on_event, returns normally and has invoked the other listener once.
C14_ListenerIsolation ==
    \A t \in Threads :
        \A a, b \in Uuids :
            ( /\ EmitOver(t)
              /\ DOMAIN ecall[t].before = {a, b}
              /\ a # b
              /\ ecall[t].before[a] = "panics"
              /\ ecall[t].before[b] = "returns" ) =>
                /\ ecall[t].result = "returned"
                /\ ecall[t].invoked[b] = 1

\* C15: a failing listener makes no sync run and no background task end in a
\* panic or stay blocked, and no later call on the emitter panics.
C15_ListenerFailureContained ==
    /\ \A r \in Runners : run[r].pc \notin {"panicked", "blocked"}
    /\ \A l \in LoopIds : loop[l].pc # "panicked"
    /\ \A t \in Threads : ecall[t].result # "panicked"

\* C16: while the callbacks of an emit run the emit does not hold the
\* registry mutex, and no call stays blocked on it.
C16_EmitReleasesLock ==
    \A t \in Threads :
        /\ ecall[t].pc = "on_event" => mutex.owner # t
        /\ ecall[t].pc # "blocked"

C18_RemoveExact ==
    [][\A t \in Threads :
          ( /\ ecall[t].pc = "idle"
            /\ ecall'[t].op = "remove_listener"
            /\ ecall'[t].result = "returned" ) =>
              /\ ecall'[t].value = (ecall'[t].id \in DOMAIN listeners)
              /\ DOMAIN listeners' = DOMAIN listeners \ {ecall'[t].id}
              /\ \A u \in DOMAIN listeners' : listeners'[u] = listeners[u]
              /\ ecall'[t].id \notin DOMAIN listeners => listeners' = listeners]_vars

\* C18 witness: a second remove_listener of an id that had been registered
\* and removed answered false, with another listener registered.
C18_Witness ==
    \E t \in Threads :
        /\ ecall[t].op = "remove_listener"
        /\ ecall[t].result = "returned"
        /\ ecall[t].value = FALSE
        /\ ecall[t].id \in issued
        /\ ecall[t].before # EmptyMap
        /\ listeners = ecall[t].before

C20_QueryFailureIsErr ==
    scan.failed_at # "none" =>
        /\ scan.result = "Err"
        /\ scan.utxos = <<>>

\* C21: every candidate output starts with is_spent = false, and an output
\* is in the list with is_spent = true only if the status query for that
\* output, in this call, has answered a status with spent = true.
C21_SpentOnlyIfReported ==
    /\ \A k \in DOMAIN scan.outputs : ~scan.outputs[k].is_spent
    /\ scan.result = "panic" => scan.utxos = <<>>
    /\ scan.result # "panic" => Len(scan.utxos) = Len(scan.answers)
    /\ \A k \in DOMAIN scan.utxos :
           /\ scan.utxos[k].outpoint = scan.outputs[k].outpoint
           /\ scan.utxos[k].is_spent <=> scan.answers[k] = Some(TRUE)
    /\ scan.result = "Ok" => Len(scan.utxos) = Len(scan.outputs)

\* C21 witness: a returned list holds an output reported spent, one reported
\* unspent and one of which the explorer knows no status.
C21_Witness ==
    /\ scan.result = "Ok"
    /\ scan.answers = <<Some(TRUE), None, Some(FALSE)>>
    /\ scan.utxos[1].is_spent
    /\ ~scan.utxos[2].is_spent
    /\ ~scan.utxos[3].is_spent

\* What the explorer's answers of one call determine.
Scanned(txs, answers) ==
    [k \in DOMAIN answers |-> WithStatus(Outputs(txs)[k], answers[k])]

\* C22: the list a call returns is the one its own answers of the explorer
\* determine, whatever the call before has returned.
C22_NoStateBetweenCalls ==
    scan.result = "Ok" =>
        /\ Len(scan.answers) = Len(Outputs(scan.txs))
        /\ scan.utxos = Scanned(scan.txs, scan.answers)

\* C22 witness: the output of 50000 that the call before reported unspent is
\* reported spent by this call, for the same outpoint and amount.
C22_Witness ==
    /\ scan.result = "Ok"
    /\ Len(scan.previous) = 1
    /\ Len(scan.utxos) = 1
    /\ scan.previous[1].amount = 50000
    /\ ~scan.previous[1].is_spent
    /\ scan.utxos[1] = [scan.previous[1] EXCEPT !.is_spent = TRUE]

(***************************************************************************)
(* Further claims about the ledger store, checked under StoreSpec.         *)
(***************************************************************************)
\* What get_payment and list_payments can answer on a ledger.
Observable(rows) ==
    << [id \in Ids |-> GetPaymentResult(rows, id)],
       [w \in (0..MaxWindow) \X (0..MaxWindow) |-> ListPaymentsResults(rows, w[1], w[2])] >>

\* C23: when save_payments(list) has returned Ok, a second save_payments with
\* the same list changes no answer of get_payment and list_payments; a call
\* on a ledger that is already the result of its list leaves it as it was.
C23_SaveTwiceSameAsOnce ==
    \A t \in Threads :
        SaveReturned(t, "save_payments", "Ok") =>
            /\ payments = SavePayments(call[t].pre, call[t].list)
            /\ Observable(SavePayments(payments, call[t].list)) = Observable(payments)
            /\ call[t].pre = SavePayments(call[t].pre, call[t].list) =>
                   payments = call[t].pre

\* C23 witness: a save_payments of two payments has returned on a ledger that
\* an earlier save of the same payments had left.
C23_Witness ==
    \E t \in Threads :
        /\ SaveReturned(t, "save_payments", "Ok")
        /\ Len(call[t].list) = 2
        /\ call[t].list[1].id # call[t].list[2].id
        /\ call[t].pre = {ToRow(call[t].list[1]), ToRow(call[t].list[2])}
        /\ payments = call[t].pre

\* C24: while a save_payments is between its first upsert and its commit no
\* other call works on the table, and when it returns Ok the ledger is its
\* list applied as a whole to the committed ledger it found: the records of
\* its list and nothing else.
C24_SavesDoNotInterleave ==
    \A t \in Threads :
        /\ call[t].pc \in {"upsert", "commit"} =>
               /\ lock = t
               /\ \A u \in Threads \ {t} : call[u].pc = "idle"
        /\ SaveReturned(t, "save_payments", "Ok") =>
               /\ payments = SavePayments(call[t].pre, call[t].list)
               /\ {r.id : r \in payments} = IdsOf(call[t].list)

\* C24 witness: a save_payments has returned on a ledger of two records that
\* are not in its list, and has left the one record of its list.
C24_Witness ==
    \E t \in Threads :
        /\ SaveReturned(t, "save_payments", "Ok")
        /\ Cardinality(call[t].pre) = 2
        /\ Len(call[t].list) = 1
        /\ \A r \in call[t].pre : r.id \notin IdsOf(call[t].list)
        /\ Cardinality(payments) = 1

\* C25: on an unchanged ledger of N payments, whatever list_payments(0, k),
\* list_payments(k, N - k) and list_payments(0, N) answer, the first two
\* joined are the third, and a window holds min(limit, max(0, N - offset))
\* records.
C25_WindowsPartition ==
    journal = NoTx =>
        \A k \in 0..Cardinality(payments) :
            \A a \in ListPaymentsResults(payments, 0, k),
               b \in ListPaymentsResults(payments, k, Cardinality(payments) - k),
               c \in ListPaymentsResults(payments, 0, Cardinality(payments)) :
                /\ a \o b = c
                /\ Len(a) = k
                /\ Len(b) = Cardinality(payments) - k

\* C26: a list that list_payments returns is in non-increasing order of
\* timestamp, and list_payments(0, N) on a ledger of N payments returns each
\* of the N records.
C26_SortedAndComplete ==
    \A t \in Threads :
        SaveReturned(t, "list_payments", "Ok") =>
            /\ \A i \in 1..(Len(call[t].obs) - 1) :
                   call[t].obs[i].timestamp >= call[t].obs[i + 1].timestamp
            /\ (call[t].offset = 0 /\ call[t].limit = Cardinality(call[t].pre)) =>
                   /\ Len(call[t].obs) = Cardinality(call[t].pre)
                   /\ Range(call[t].obs) = {FromRow(r) : r \in call[t].pre}

\* C26 witness: list_payments(0, 3) has returned the three payments of the
\* ledger, the latest first.
C26_Witness ==
    \E t \in Threads :
        /\ SaveReturned(t, "list_payments", "Ok")
        /\ call[t].offset = 0
        /\ call[t].limit = 3
        /\ Len(call[t].obs) = 3
        /\ call[t].obs[1].timestamp > call[t].obs[3].timestamp

\* C28: after save_payment(p) get_payment(p.id) answers p, one record has that
\* id, the records of other ids are as before, and saving p again changes
\* nothing; get_payment(id) answers None exactly when no record has that id.
C28_SavePaymentUpserts ==
    \A t \in Threads :
        /\ SaveReturned(t, "save_payment", "Ok") =>
               /\ GetPaymentResult(payments, call[t].list[1].id) = Some(call[t].list[1])
               /\ Cardinality({r \in payments : r.id = call[t].list[1].id}) = 1
               /\ {r \in payments : r.id # call[t].list[1].id}
                      = {r \in call[t].pre : r.id # call[t].list[1].id}
               /\ InsertOrReplace(payments, call[t].list[1]) = payments
        /\ SaveReturned(t, "get_payment", "Ok") =>
               /\ call[t].obs = None <=> ~ \E r \in call[t].pre : r.id = call[t].id
               /\ call[t].obs # None =>
                      /\ call[t].obs[1].id = call[t].id
                      /\ ToRow(call[t].obs[1]) \in call[t].pre

\* C28 witness: save_payment has replaced the record of its id on a ledger
\* that holds a record of another id as well.
C28_Witness ==
    \E t \in Threads :
        /\ SaveReturned(t, "save_payment", "Ok")
        /\ \E r \in call[t].pre : r.id = call[t].list[1].id /\ r # ToRow(call[t].list[1])
        /\ \E r \in call[t].pre : r.id # call[t].list[1].id
        /\ call[t].list[1].fees # 0

(***************************************************************************)
(* Claims about the balance snapshot, checked under SyncSpec.              *)
(***************************************************************************)
\* A run's save_offchain_balance succeeds in this step.
BalanceSaved(r) ==
    /\ run[r].pc = "save_offchain_balance"
    /\ run'[r].pc = NextPc("save_offchain_balance")

\* C27: get_offchain_balance answers the default when nothing was saved; the
\* settings hold at most one snapshot; a successful save_offchain_balance
\* makes get_offchain_balance answer exactly the balance saved, whatever was
\* stored before, and nothing else changes the snapshot.
C27_BalanceLastWriteWins ==
    /\ [](/\ settings = {} => GetOffchainBalance(settings) = [pending_sats |-> 0, confirmed_sats |-> 0]
          /\ Cardinality({s \in settings : s.key = "offchain_balance"}) <= 1)
    /\ [][/\ \A r \in Callers :
                BalanceSaved(r) =>
                    /\ GetOffchainBalance(settings') = run[r].balance
                    /\ Cardinality(settings') = 1
          /\ settings' # settings => \E r \in Callers : BalanceSaved(r)]_vars

\* C27 witness: two runs have each saved a balance and each has changed what
\* get_balance answers: the second save replaced the snapshot of the first.
C27_Witness ==
    \E r1, r2 \in Callers :
        /\ r1 # r2
        /\ run[r1].pc = "transaction_history" /\ run[r1].changed
        /\ run[r2].pc = "transaction_history" /\ run[r2].changed
        /\ Cardinality(settings) = 1

\* C29: while a sync run has written a new balance and not yet its payments,
\* no reader can read the storage: get_balance and list_payments never see
\* the balance of one run with the payments of the run before.
C29_NoTornSnapshot ==
    \A r \in Callers :
        (run[r].pc \in {"transaction_history", "save_payments"} /\ run[r].changed) =>
            ~CanLock

(***************************************************************************)
(* Claims about the number of loops, checked under RestartSpec.            *)
(***************************************************************************)
\* C30: at most one background loop exists and at most one scheduled sync run
\* is in progress, whatever calls of start() and disconnect() were made.
C30_AtMostOneLoop ==
    /\ Cardinality({l \in LoopIds : Running(l)}) <= 1
    /\ Cardinality({l \in LoopIds : loop[l].pc = "sync"}) <= 1

(***************************************************************************)
(* Claims about the normalization, checked under NormSpec.                 *)
(***************************************************************************)
\* C31: Payment::from of a Boarding entry always returns, and the payment is
\* Received with fees 0, the amount of the entry and its txid as id,
\* Completed when confirmed_at is present and Pending when it is None.
C31_BoardingNormalized ==
    (norm.pc # "called" /\ norm.tx.kind = "Boarding") =>
        /\ norm.pc = "returned"
        /\ norm.payment[1].payment_type = Received
        /\ norm.payment[1].fees = 0
        /\ norm.payment[1].amount = norm.tx.amount
        /\ norm.payment[1].id = norm.tx.txid
        /\ norm.tx.confirmed_at # None => norm.payment[1].status = Completed
        /\ norm.tx.confirmed_at = None => norm.payment[1].status = Pending

\* C31 witness: an unconfirmed boarding of 50000 sats was converted into a
\* Pending payment received.
C31_Witness ==
    /\ norm.pc = "returned"
    /\ norm.tx.kind = "Boarding"
    /\ norm.tx.confirmed_at = None
    /\ norm.tx.amount = 50000
    /\ norm.payment[1].status = Pending
    /\ norm.payment[1].payment_type = Received

\* C32: Payment::from of a Round or Redeem entry with signed amount d always
\* returns a payment that is Received when d > 0 and Sent when d < 0, with
\* the absolute value of d as amount, for every d from the least to the
\* greatest; a Round is Completed, a Redeem is Completed when is_settled and
\* Pending otherwise.
C32_SignedAmountNormalized ==
    (norm.pc # "called" /\ norm.tx.kind \in {"Round", "Redeem"}) =>
        /\ norm.pc = "returned"
        /\ norm.tx.amount > 0 => norm.payment[1].payment_type = Received
        /\ norm.tx.amount < 0 => norm.payment[1].payment_type = Sent
        /\ norm.payment[1].amount >= 0
        /\ norm.payment[1].amount =
               IF norm.tx.amount < 0 THEN 0 - norm.tx.amount ELSE norm.tx.amount
        /\ norm.tx.kind = "Round" => norm.payment[1].status = Completed
        /\ norm.tx.kind = "Redeem" =>
               norm.payment[1].status = IF norm.tx.is_settled THEN Completed ELSE Pending

\* C40: Payment::from of a Round or Redeem entry whose amount is zero returns
\* a payment Sent of amount 0, with the status its variant gives it.
C40_ZeroIsSent ==
    (norm.pc # "called" /\ norm.tx.kind \in {"Round", "Redeem"} /\ norm.tx.amount = 0) =>
        /\ norm.pc = "returned"
        /\ norm.payment[1].payment_type = Sent
        /\ norm.payment[1].amount = 0
        /\ norm.tx.kind = "Round" => norm.payment[1].status = Completed
        /\ norm.tx.kind = "Redeem" =>
               norm.payment[1].status = IF norm.tx.is_settled THEN Completed ELSE Pending

\* C40 witness: an unsettled redeem of amount zero was converted into a
\* Pending payment sent.
C40_Witness ==
    /\ norm.pc = "returned"
    /\ norm.tx.kind = "Redeem"
    /\ norm.tx.amount = 0
    /\ ~norm.tx.is_settled
    /\ norm.payment[1].payment_type = Sent
    /\ norm.payment[1].status = Pending

(***************************************************************************)
(* Claims about the sync run and the ledger lock, checked under NotifySpec.*)
(***************************************************************************)
\* C33: when a sync run is about to emit Synced it does not hold the lock of
\* the ledger store: the lock is free, so a listener that reads the storage
\* from on_event can take it.
C33_EmitWithoutStoreLock ==
    \A r \in Runners :
        run[r].pc = "emit" => (lock # ToString(r) /\ CanLock)

\* C33 witness: a run that has saved its payments is about to emit Synced to
\* a registered listener.
C33_Witness ==
    \E r \in Runners :
        /\ run[r].pc = "emit"
        /\ run[r].saved # <<>>
        /\ payments # {}
        /\ DOMAIN listeners # {}

(***************************************************************************)
(* Claims about the SDK calls, checked under AppSpec.                      *)
(***************************************************************************)
\* A step of a run's save_offchain_balance or save_payments.
WritesOf(r) ==
    /\ run[r].pc \in {"save_offchain_balance", "save_payments"}
    /\ run'[r] # run[r]

\* C34: a step of get_balance or list_payments leaves the stored payments and
\* the stored balance as they were, and every step that changes one of them
\* is the save_offchain_balance or the save_payments of a sync run.
C34_QueriesChangeNothing ==
    [][/\ \A t \in Threads :
             call'[t] # call[t] => (payments' = payments /\ settings' = settings)
       /\ (payments' # payments \/ settings' # settings) =>
              \E r \in Runners : WritesOf(r)]_vars

\* C34 witness: get_balance has answered a balance that a sync run saved,
\* with payments in the ledger.
C34_Witness ==
    \E t \in Threads :
        /\ SaveReturned(t, "get_balance", "Ok")
        /\ call[t].obs # Some(DefaultBalance)
        /\ payments # {}

\* C35: every loop that runs when disconnect() is called exits, however many
\* loops there are and however often disconnect() is called; a further
\* disconnect() changes for no loop whether its shutdown branch is ready.
C35_ShutdownBroadcast ==
    /\ \A l \in LoopIds : loop[l].signalled ~> (loop[l].pc = "exited")
    /\ [][(version > 0 /\ version' > version) =>
             \A l \in LoopIds : Running(l) => (Changed(l) /\ version' # loop'[l].seen)]_vars
    /\ [][version' > version =>
             \A l \in LoopIds : Running(l) => version' # loop'[l].seen]_vars

\* C35 witness: after two calls of disconnect() two loops have exited, each
\* signalled while it ran.
C35_Witness ==
    /\ version >= 2
    /\ \A l \in LoopIds : loop[l].pc = "exited" /\ loop[l].signalled

\* C36: a step of a run's save_payments, successful or failed, leaves the
\* balance snapshot as it was, and a step of save_offchain_balance leaves the
\* payments as they were.
C36_TablesIndependent ==
    [][\A r \in Runners :
          /\ (run[r].pc = "save_payments" /\ run'[r] # run[r]) => settings' = settings
          /\ (run[r].pc = "save_offchain_balance" /\ run'[r] # run[r]) =>
                 payments' = payments]_vars

\* C36 witness: with payments in the ledger, a run has replaced the balance
\* snapshot and its save_payments has failed afterwards.
C36_Witness ==
    \E r \in Runners :
        /\ run[r].failed_at = "save_payments"
        /\ run[r].changed
        /\ run[r].wrote # NoBalance
        /\ GetOffchainBalance(settings) = run[r].wrote
        /\ payments # {}

\* C37: when a scheduled run and an on-demand run have both written what
\* they fetched and neither has failed, the stored balance and the stored
\* payments are those that one of the two runs wrote.
C37_ConcurrentSyncsConsistent ==
    \A l \in LoopIds, c \in Callers :
        (/\ run[l].pc \in {"emit", "return"} /\ run[l].failed_at = "none"
         /\ run[c].pc \in {"emit", "return"} /\ run[c].failed_at = "none") =>
            \E r \in {l, c} :
                /\ GetOffchainBalance(settings) = run[r].wrote
                /\ payments = SavePayments({}, run[r].saved)

C39_OnlySynced ==
    /\ events \subseteq SdkEvents
    /\ "PaymentSucceeded" \notin events
    /\ "PaymentPending" \notin events

\* C39 witness: Synced was emitted, a send_payment has returned Ok, and the
\* ledger holds a Completed and a Pending payment.
C39_Witness ==
    /\ events = {"Synced"}
    /\ \E c \in Callers : send[c].pc = "done" /\ send[c].result = "Ok"
    /\ \E row \in payments : row.status = "Completed"
    /\ \E row \in payments : row.status = "Pending"

=============================================================================
